---------------------------- MODULE Spec2Model ----------------------------
(***************************************************************************)
(* A model of generate.py, the interactive generator of a portfolio        *)
(* project page.                                                           *)
(*                                                                         *)
(* Representation.  A Python str is a sequence of one-character strings,   *)
(* <<"v", "a", "g">> for "vag".  In the rendered page every literal chunk  *)
(* of the f-string template is ONE element of the sequence (a string of    *)
(* more than one character, such as "</h1>\n"), and interpolated text is   *)
(* spelled character by character; concatenating the elements gives the    *)
(* str that render_html returns.  An Optional value is <<>> for None and   *)
(* <<v>> for the value v.                                                  *)
(***************************************************************************)
EXTENDS Integers, Sequences, FiniteSets, TLC

VARIABLES
    pc,                     \* the position of the running function
    response,               \* the line the last input() call returned
    inputs,                 \* prompt_int: the lines read so far by this call
    min_value,              \* prompt_int: its min_value argument
    returned,               \* prompt_int: Optional, the value it returned
    fs,                     \* the filesystem under the repository root
    fs_start,               \* the filesystem when main was started
    confirmed,              \* the checkpoints the user has confirmed so far
    raw_slug, slug,         \* main: the name as typed, and slugify's result
    title,                  \* main: the page title
    count,                  \* the count argument of the running build_* call
    paragraphs,             \* the list the running build_* loop appends to
    step_count, steps,      \* build_steps_with_images: argument and result list
    description_paragraphs, \* main: list of str
    steps_mode,             \* main: "images" or "centered" ("" before the choice)
    step_groups,            \* main: Optional list of lists of str
    step_paragraphs,        \* main: Optional list of str
    html_output             \* main: Optional, the str render_html returned

vars == <<pc, response, inputs, min_value, returned, fs, fs_start, confirmed,
          raw_slug, slug, title, count, paragraphs, step_count, steps,
          description_paragraphs, steps_mode, step_groups, step_paragraphs,
          html_output>>

\* Everything but the line just read: a re-prompt changes nothing of it.
progress_vars == <<pc, inputs, min_value, returned, fs, fs_start, confirmed,
          raw_slug, slug, title, count, paragraphs, step_count, steps,
          description_paragraphs, steps_mode, step_groups, step_paragraphs,
          html_output>>

None == <<>>
Some(v) == <<v>>

-----------------------------------------------------------------------------
(* Characters and the str methods the program uses.                        *)

UpperLetters == <<"A", "B", "C", "D", "E", "F", "G", "H", "I", "J", "K", "L",
                  "M", "N", "O", "P", "Q", "R", "S", "T", "U", "V", "W", "X",
                  "Y", "Z", "Å", "Ä", "Ö">>
LowerLetters == <<"a", "b", "c", "d", "e", "f", "g", "h", "i", "j", "k", "l",
                  "m", "n", "o", "p", "q", "r", "s", "t", "u", "v", "w", "x",
                  "y", "z", "å", "ä", "ö">>
AsciiLower == {LowerLetters[i] : i \in 1..26}
Digits == <<"0", "1", "2", "3", "4", "5", "6", "7", "8", "9">>
DigitChars == {Digits[i] : i \in 1..10}

\* The whitespace characters of the model: what str.strip() strips and what
\* the pattern \s matches.
Whitespace == {" ", "\t"}

\* Every character the model's inputs are written with.
Chars == {UpperLetters[i] : i \in 1..29} \cup {LowerLetters[i] : i \in 1..29}
         \cup DigitChars \cup Whitespace
         \cup {"_", "-", "!", "&", "<", ">", "\"", "'", ";", "#", "+", "."}

\* str.lower() on one character.
lower_char(c) ==
    IF \E i \in 1..29 : UpperLetters[i] = c
    THEN LowerLetters[CHOOSE i \in 1..29 : UpperLetters[i] = c]
    ELSE c

\* str.lower()
lower(s) == [i \in 1..Len(s) |-> lower_char(s[i])]

RECURSIVE lstrip_chars(_, _)
\* str.lstrip(chars): drop the leading characters that are in chars.
lstrip_chars(s, chars) ==
    IF s # <<>> /\ Head(s) \in chars THEN lstrip_chars(Tail(s), chars) ELSE s

RECURSIVE rstrip_chars(_, _)
\* str.rstrip(chars)
rstrip_chars(s, chars) ==
    IF s # <<>> /\ s[Len(s)] \in chars
    THEN rstrip_chars(SubSeq(s, 1, Len(s) - 1), chars)
    ELSE s

\* str.strip(chars)
strip_chars(s, chars) == rstrip_chars(lstrip_chars(s, chars), chars)

\* str.strip() with no argument strips whitespace.
strip(s) == strip_chars(s, Whitespace)

RECURSIVE replace(_, _, _)
\* str.replace(old, new) for a one-character old; new is a str.
replace(s, old, new) ==
    IF s = <<>> THEN <<>>
    ELSE (IF Head(s) = old THEN new ELSE <<Head(s)>>) \o replace(Tail(s), old, new)

RECURSIVE re_sub_plus(_, _, _)
\* re.sub(r"[class]+", repl, s): every maximal run of characters of the class
\* is replaced by repl.
re_sub_plus(class, repl, s) ==
    IF s = <<>> THEN <<>>
    ELSE IF Head(s) \in class
         THEN repl \o re_sub_plus(class, repl, lstrip_chars(s, class))
         ELSE <<Head(s)>> \o re_sub_plus(class, repl, Tail(s))

\* f of the value of e: a statement `v = e` followed by code that reads v.
\* The value is computed once, before f is.
Then(e, f(_)) == CHOOSE y \in {f(v) : v \in {e}} : TRUE

RECURSIVE join(_, _)
\* sep.join(parts) for a list of str.
join(sep, parts) ==
    IF parts = <<>> THEN <<>>
    ELSE IF Len(parts) = 1 THEN parts[1]
    ELSE parts[1] \o sep \o join(sep, Tail(parts))

-----------------------------------------------------------------------------
(* slugify                                                                 *)

\* The characters the pattern [^a-z0-9_] leaves in place.
SlugChars == AsciiLower \cup DigitChars \cup {"_"}

\* value.replace("å", "a").replace("ä", "a").replace("ö", "o")
replace_accents(value) ==
    Then(replace(value, "å", <<"a">>), LAMBDA v1 :
    Then(replace(v1, "ä", <<"a">>), LAMBDA v2 :
    replace(v2, "ö", <<"o">>)))

\* slugify with the removal of disallowed characters done before whitespace
\* is turned into underscores.
slugify_remove_first(value) ==
    Then(strip(value), LAMBDA v0 :
    Then(lower(v0), LAMBDA v1 :
    Then(replace_accents(v1), LAMBDA v2 :
    Then(re_sub_plus(Chars \ SlugChars, <<>>, v2), LAMBDA v3 :
    Then(re_sub_plus(Whitespace, <<"_">>, v3), LAMBDA v4 :
    Then(re_sub_plus({"_"}, <<"_">>, v4), LAMBDA v5 :
    strip_chars(v5, {"_"})))))))

\* slugify without the final strip("_").
slugify_no_trim(value) ==
    Then(strip(value), LAMBDA v0 :
    Then(lower(v0), LAMBDA v1 :
    Then(replace_accents(v1), LAMBDA v2 :
    Then(re_sub_plus(Whitespace, <<"_">>, v2), LAMBDA v3 :
    Then(re_sub_plus(Chars \ SlugChars, <<>>, v3), LAMBDA v4 :
    re_sub_plus({"_"}, <<"_">>, v4))))))

\* slugify: the six statements of lines 34-39, each on the value the one
\* before it left.
slugify(value) ==
    Then(strip(value), LAMBDA v0 :
    Then(lower(v0), LAMBDA v1 :
    Then(replace_accents(v1), LAMBDA v2 :
    Then(re_sub_plus(Whitespace, <<"_">>, v2), LAMBDA v3 :
    Then(re_sub_plus(Chars \ SlugChars, <<>>, v3), LAMBDA v4 :
    Then(re_sub_plus({"_"}, <<"_">>, v4), LAMBDA v5 :
    strip_chars(v5, {"_"})))))))

-----------------------------------------------------------------------------
(* The prompts                                                             *)

\* prompt_non_empty returning whatever was typed, blank or not.
prompt_non_empty_any(line) == Some(strip(line))

\* One pass of prompt_non_empty's loop on the line read: None to prompt again,
\* or the value returned.
prompt_non_empty(line) ==
    Then(strip(line), LAMBDA val : IF val # <<>> THEN Some(val) ELSE None)

DigitValue(c) == (CHOOSE i \in 1..10 : Digits[i] = c) - 1

RECURSIVE digits_value(_, _)
\* The number a run of digits and underscores spells, after the number acc.
digits_value(s, acc) ==
    IF s = <<>> THEN acc
    ELSE IF Head(s) = "_" THEN digits_value(Tail(s), acc)
    ELSE digits_value(Tail(s), 10 * acc + DigitValue(Head(s)))

\* int(raw): None for ValueError.  An integer literal is an optional sign and
\* digits, with single underscores allowed between digits, and whitespace
\* around it.
int(raw) ==
    Then(strip(raw), LAMBDA s :
        LET signed == s # <<>> /\ Head(s) \in {"+", "-"}
            body == IF signed THEN Tail(s) ELSE s
            wellformed ==
                /\ body # <<>>
                /\ \A i \in 1..Len(body) : body[i] \in DigitChars \cup {"_"}
                /\ body[1] # "_" /\ body[Len(body)] # "_"
                /\ \A i \in 1..(Len(body) - 1) : ~(body[i] = "_" /\ body[i + 1] = "_")
        IN  IF ~wellformed THEN None
            ELSE IF signed /\ Head(s) = "-" THEN Some(0 - digits_value(body, 0))
            ELSE Some(digits_value(body, 0)))

\* prompt_int's pass with the blank line returning 0 whatever the minimum is.
prompt_int_blank_any(line, minimum) ==
    Then(strip(line), LAMBDA raw :
        IF raw = <<>> THEN Some(0)
        ELSE Then(int(raw), LAMBDA value :
                IF value = None THEN None
                ELSE IF value[1] < minimum THEN None
                ELSE value))

\* prompt_int's pass with the comparison value <= min_value.
prompt_int_above(line, minimum) ==
    Then(strip(line), LAMBDA raw :
        IF raw = <<>> /\ minimum = 0 THEN Some(0)
        ELSE Then(int(raw), LAMBDA value :
                IF value = None THEN None
                ELSE IF value[1] <= minimum THEN None
                ELSE value))

\* One pass of prompt_int's loop on the line read: None to prompt again, or
\* the value returned.
prompt_int(line, minimum) ==
    Then(strip(line), LAMBDA raw :
        IF raw = <<>> /\ minimum = 0 THEN Some(0)
        ELSE Then(int(raw), LAMBDA value :
                IF value = None THEN None
                ELSE IF value[1] < minimum THEN None
                ELSE value))

-----------------------------------------------------------------------------
(* render_html                                                             *)

\* html.escape(s) with the default quote=True: five replacements, & first.
\* A variant that leaves the quotes alone, as html.escape(s, quote=False).
html_escape_no_quote(s) ==
    Then(replace(s, "&", <<"&", "a", "m", "p", ";">>), LAMBDA s1 :
    Then(replace(s1, "<", <<"&", "l", "t", ";">>), LAMBDA s2 :
    replace(s2, ">", <<"&", "g", "t", ";">>)))

html_escape(s) ==
    Then(replace(s, "&", <<"&", "a", "m", "p", ";">>), LAMBDA s1 :
    Then(replace(s1, "<", <<"&", "l", "t", ";">>), LAMBDA s2 :
    Then(replace(s2, ">", <<"&", "g", "t", ";">>), LAMBDA s3 :
    Then(replace(s3, "\"", <<"&", "q", "u", "o", "t", ";">>), LAMBDA s4 :
    replace(s4, "'", <<"&", "#", "x", "2", "7", ";">>)))))

RECURSIVE str(_)
\* str(n) of a natural number, as the f-string formats an index.
str(n) ==
    IF n < 10 THEN <<Digits[n + 1]>>
    ELSE str(n \div 10) \o <<Digits[(n % 10) + 1]>>

\* The literal chunks of the page template (lines 115-159), of a step row
\* (lines 97-102) and of a paragraph (lines 86, 94, 107), in source order.
DocHead == "<!DOCTYPE html>\n<html lang=\"sv\">\n<head>\n    <meta charset=\"UTF-8\">\n    <meta name=\"viewport\" content=\"width=device-width, initial-scale=1.0\">    \n    <meta name=\"description\" content=\""

DocOgImage == "\">        \n    <meta property=\"og:image\" content=\"https://philipwallin.pw/images/projects/"

DocTitleOpen == "/main_2.jpg\">    \n    <title>"

DocTitleClose == " - Philip Wallin</title>    \n    <link rel=\"icon\" type=\"image/x-icon\" href=\"../images/favicon.ico\">    \n    <link rel=\"stylesheet\" href=\"../style.css\">\n</head>\n<body>\n    <nav>\n        <div class=\"logo\">\n            <a href=\"../index.html\"><img src=\"../images/logo.png\" alt=\"Logo\"></a>\n        </div>\n        <ul class=\"nav-links\">\n            <li><a href=\"../index.html\">Projekt</a></li>\n            <li><a href=\"../om_mig.html\">Om mig</a></li>\n        </ul>\n    </nav>\n    \n    <section class=\"project-detail\">\n        <h1>"

DocH1Close == "</h1>\n        <div class=\"project-content\">\n            <div class=\"project-description\">\n"

DocDescriptionClose == "\n            </div>\n            <div class=\"project-images\">\n                <img src=\"../images/projects/"

DocAlt1Open == "/main_1.jpg\" alt=\""

DocAlt1Close == " bild 1\">\n                <img src=\"../images/projects/"

DocAlt2Open == "/main_2.jpg\" alt=\""

DocAlt2Close == " bild 2\">\n                <img src=\"../images/projects/"

DocAlt3Open == "/main_3.jpg\" alt=\""

DocAlt3Close == " bild 3\">\n            </div>\n            \n            <h2>Hur den gjordes</h2>\n            \n            <div class=\""

DocClassClose == "\">\n"

DocTail == "\n            </div>\n        </div>\n    </section>\n    <!-- Cloudflare Web Analytics --><script defer src='https://static.cloudflareinsights.com/beacon.min.js' data-cf-beacon='{\"token\": \"f9bdf25e4d7c4efc8e16c66a618ee4c4\"}'></script><!-- End Cloudflare Web Analytics -->\n</body>\n</html>\n"

RowOpen == "                <div class=\"step-row\">\n                    <img src=\"../images/projects/"

RowStep == "/step_"

RowAlt == ".jpg\" alt=\"Steg "

RowTextOpen == "\">\n                    <div class=\"step-text\">\n"

RowClose == "\n                    </div>\n                </div>"

DescriptionPOpen == "                <p>"

POpenStep == "                        <p>"

PClose == "</p>"

NotBlank(p) == strip(p) # <<>>

\* " ".join(p.strip() for p in description_paragraphs if p.strip())
safe_description(description_paragraphs_) ==
    Then(SelectSeq(description_paragraphs_, NotBlank), LAMBDA kept :
    Then([i \in 1..Len(kept) |-> strip(kept[i])], LAMBDA stripped :
    join(<<" ">>, stripped)))

\* "\n".join(f"<p>{html.escape(p)}</p>" for p in paragraphs), after the
\* indentation chunk p_open.
paragraphs_html(p_open, paragraphs_) ==
    Then([i \in 1..Len(paragraphs_) |->
            <<p_open>> \o html_escape(paragraphs_[i]) \o <<PClose>>], LAMBDA elements :
    join(<<"\n">>, elements))

\* One element of rows: the step's image and its paragraphs.
step_row(slug_, index, paragraphs_) ==
    Then(paragraphs_html(POpenStep, paragraphs_), LAMBDA inner :
    <<RowOpen>> \o slug_ \o <<RowStep>> \o str(index) \o <<RowAlt>> \o str(index)
    \o <<RowTextOpen>> \o inner \o <<RowClose>>)

\* rows with the steps numbered from 0, as enumerate without start=1 would.
rows_from_zero(slug_, groups) ==
    [i \in 1..Len(groups) |-> step_row(slug_, i - 1, groups[i])]

\* rows, built by the loop over enumerate(step_groups, start=1).
rows(slug_, groups) ==
    [i \in 1..Len(groups) |-> step_row(slug_, i, groups[i])]

steps_html(slug_, mode, step_paragraphs_, step_groups_) ==
    IF mode = "images" /\ step_groups_ # None
    THEN Then(rows(slug_, step_groups_[1]), LAMBDA all_rows : join(<<"\n\n">>, all_rows))
    ELSE IF mode = "centered" /\ step_paragraphs_ # None
    THEN paragraphs_html(DescriptionPOpen, step_paragraphs_[1])
    ELSE <<>>

\* steps_class with the modifier added in the image layout instead.
steps_class_inverted(mode) ==
    IF mode # "centered" THEN <<"project-steps", " centered-text">>
    ELSE <<"project-steps">>

steps_class(mode) ==
    IF mode = "centered" THEN <<"project-steps", " centered-text">>
    ELSE <<"project-steps">>

render_html(slug_, title_, description_paragraphs_, mode, step_paragraphs_, step_groups_) ==
    Then(html_escape(title_), LAMBDA safe_title :
    Then(safe_description(description_paragraphs_), LAMBDA safe_description_ :
    Then(html_escape(safe_description_), LAMBDA safe_description_attr :
    Then(paragraphs_html(DescriptionPOpen, description_paragraphs_), LAMBDA description_html :
    Then(steps_html(slug_, mode, step_paragraphs_, step_groups_), LAMBDA steps_html_ :
        <<DocHead>> \o safe_description_attr
        \o <<DocOgImage>> \o slug_
        \o <<DocTitleOpen>> \o safe_title
        \o <<DocTitleClose>> \o safe_title
        \o <<DocH1Close>> \o description_html
        \o <<DocDescriptionClose>> \o slug_ \o <<DocAlt1Open>> \o safe_title
        \o <<DocAlt1Close>> \o slug_ \o <<DocAlt2Open>> \o safe_title
        \o <<DocAlt2Close>> \o slug_ \o <<DocAlt3Open>> \o safe_title
        \o <<DocAlt3Close>> \o steps_class(mode)
        \o <<DocClassClose>> \o steps_html_
        \o <<DocTail>>)))))

-----------------------------------------------------------------------------
(* confirm, and the order of main's last statements                        *)

\* confirm taking everything but a refusal as a yes.
confirm_unless_no(line) == lower(strip(line)) \notin {<<"n">>, <<"n", "o">>}

\* The truth value confirm returns on the line read.
confirm(line) ==
    lower(strip(line)) \in {<<"j">>, <<"j", "a">>, <<"y">>, <<"y", "e", "s">>}

\* The statements in the order of spec section 4.4 step 8: the document is
\* written before the image folder is made.
next_statement_write_first(at) ==
    CASE at = "render" -> "mkdir_projects"
      [] at = "mkdir_projects" -> "write_text"
      [] at = "write_text" -> "mkdir_images"
      [] at = "mkdir_images" -> "done"

\* The statement main runs after the one at `at`, from the call of
\* render_html to the return.
next_statement(at) ==
    CASE at = "render" -> "mkdir_projects"
      [] at = "mkdir_projects" -> "mkdir_images"
      [] at = "mkdir_images" -> "write_text"
      [] at = "write_text" -> "done"

-----------------------------------------------------------------------------
(* The state before anything has been read or built.                       *)

\* The repository root: whether projects/ is a directory, the regular files
\* projects/<name>.html with their content (the elements of `content`, and,
\* when `torn`, a part of the element a cut-off write was at), and the names
\* of the directories
\* images/projects/<name>; then the paths of the other kind: whether projects
\* is a regular file, the names with a directory at projects/<name>.html and
\* the names with a regular file at images/projects/<name>.
NoFiles == [projects_dir |-> FALSE, html |-> {}, image_dirs |-> {},
            projects_file |-> FALSE, html_dirs |-> {}, image_files |-> {}]

PromptIntIdle == inputs = <<>> /\ min_value = 0 /\ returned = None

MainIdle ==
    /\ confirmed = {}
    /\ raw_slug = <<>> /\ slug = <<>> /\ title = <<>>
    /\ count = 0 /\ paragraphs = <<>> /\ step_count = 0 /\ steps = <<>>
    /\ description_paragraphs = <<>> /\ steps_mode = ""
    /\ step_groups = None /\ step_paragraphs = None /\ html_output = None

\* The strs of at most n characters over an alphabet.
Strings(alphabet, n) == UNION {[1..k -> alphabet] : k \in 0..n}

-----------------------------------------------------------------------------
(* slugify as a function of the raw name: one call per raw name.           *)

MaxRawLen == 4

SlugAlphabet == {"a", "B", "å", "Ä", "ö", "2", " ", "_", "-"}

\* The raw name "  Väg-Lampa 2!! ".
VagLampa == <<" ", " ", "V", "ä", "g", "-", "L", "a", "m", "p", "a", " ", "2",
              "!", "!", " ">>

RawNames == Strings(SlugAlphabet, MaxRawLen) \cup {VagLampa}

InitSlug ==
    /\ pc = "slugify_call"
    /\ response \in RawNames
    /\ fs = NoFiles /\ fs_start = NoFiles
    /\ PromptIntIdle /\ MainIdle

\* slug = slugify(raw_slug), on the line just read.
SlugifyCall ==
    /\ pc = "slugify_call"
    /\ raw_slug' = response
    /\ slug' = slugify(response)
    /\ pc' = "slugify_done"
    /\ UNCHANGED <<response, inputs, min_value, returned, fs, fs_start, confirmed,
                   title, count, paragraphs, step_count, steps,
                   description_paragraphs, steps_mode, step_groups,
                   step_paragraphs, html_output>>

NextSlug == SlugifyCall

SpecSlug == InitSlug /\ [][NextSlug]_vars

-----------------------------------------------------------------------------
(* prompt_int as a loop of its own: one call, the lines typed one by one.  *)

MaxReads == 2

MinValues == {-1, 0, 1, 2}

\* The lines a user types at an integer prompt.
IntLines == {<<>>, <<" ">>, <<"x">>, <<"0">>, <<"1">>, <<"2">>, <<"-", "1">>,
             <<"-", "2">>, <<" ", "2", " ">>, <<"+", "1">>, <<"1", "_", "0">>,
             <<"1", ".">>, <<"-">>, <<"1", "2">>, <<"2", "_">>}

InitPromptInt ==
    /\ pc = "prompt_int"
    /\ min_value \in MinValues
    /\ inputs = <<>> /\ returned = None /\ response = <<>>
    /\ fs = NoFiles /\ fs_start = NoFiles
    /\ MainIdle

\* raw = input(prompt).strip() and the rest of the loop body.
PromptIntRead ==
    /\ pc = "prompt_int"
    /\ Len(inputs) < MaxReads
    /\ \E line \in IntLines :
          /\ response' = line
          /\ inputs' = Append(inputs, line)
          /\ returned' = prompt_int(line, min_value)
          /\ pc' = IF prompt_int(line, min_value) = None
                   THEN "prompt_int" ELSE "prompt_int_returned"
    /\ UNCHANGED <<min_value, fs, fs_start, confirmed, raw_slug, slug, title,
                   count, paragraphs, step_count, steps, description_paragraphs,
                   steps_mode, step_groups, step_paragraphs, html_output>>

NextPromptInt == PromptIntRead

SpecPromptInt == InitPromptInt /\ [][NextPromptInt]_vars

-----------------------------------------------------------------------------
(* render_html as a function of its arguments: one call per argument list. *)

MaxDescription == 2
MaxSteps == 2
MaxStepParagraphs == 3

RenderSlugs == {<<"a">>, <<"v", "_", "2">>}

\* Titles and paragraphs as main passes them: non-empty and stripped.
TitleTexts == {<<"T">>, <<"<", "&", ">">>, <<"\"", " ", "'">>, <<"&", "l", "t", ";">>}
ParagraphTexts == {<<"<", "&", " ", ">", "\"", "'">>, <<"a", "&", "g", "t", ";">>}

\* The lists of 1..n paragraphs.
ParagraphLists(n) == UNION {[1..k -> ParagraphTexts] : k \in 1..n}

RECURSIVE TotalLen(_)
TotalLen(lists) == IF lists = <<>> THEN 0 ELSE Len(Head(lists)) + TotalLen(Tail(lists))

\* The lists of 1..MaxSteps steps holding at most MaxStepParagraphs
\* paragraphs in all, each step at least one.
StepGroupLists ==
    {g \in UNION {[1..k -> ParagraphLists(MaxStepParagraphs)] : k \in 1..MaxSteps} :
        TotalLen(g) <= MaxStepParagraphs}

InitRender ==
    /\ pc = "render_html_call"
    /\ slug \in RenderSlugs
    /\ title \in TitleTexts
    /\ description_paragraphs \in ParagraphLists(MaxDescription)
    /\ steps_mode \in {"images", "centered"}
    /\ \/ /\ steps_mode = "images"
          /\ step_groups \in {Some(g) : g \in StepGroupLists}
          /\ step_paragraphs = None
       \/ /\ steps_mode = "centered"
          /\ step_groups = None
          /\ step_paragraphs \in {Some(l) : l \in ParagraphLists(MaxStepParagraphs)}
    /\ html_output = None
    /\ confirmed = {} /\ raw_slug = <<>> /\ response = <<>>
    /\ count = 0 /\ paragraphs = <<>> /\ step_count = 0 /\ steps = <<>>
    /\ fs = NoFiles /\ fs_start = NoFiles
    /\ PromptIntIdle

\* html_output = render_html(...)
RenderHtmlCall ==
    /\ pc = "render_html_call"
    /\ html_output' = Some(render_html(slug, title, description_paragraphs,
                                       steps_mode, step_paragraphs, step_groups))
    /\ pc' = "render_html_done"
    /\ UNCHANGED <<response, inputs, min_value, returned, fs, fs_start, confirmed,
                   raw_slug, slug, title, count, paragraphs, step_count, steps,
                   description_paragraphs, steps_mode, step_groups, step_paragraphs>>

NextRender == RenderHtmlCall

SpecRender == InitRender /\ [][NextRender]_vars

-----------------------------------------------------------------------------
(* main: one run, from the first prompt to the return.  Each action is the *)
(* code from one input() call to the next; the statements after the last   *)
(* prompt are one action each, a filesystem call being a step of its own.  *)

MaxCount == 2

\* The lines a user types at each prompt.
NameLines == {<<>>, <<" ">>, <<"!">>, <<"a">>, <<" ", "B", " ", "c">>}
ConfirmLines == {<<>>, <<"n">>, <<"j">>, <<" ", "J", "A">>, <<"y", "e", "s">>,
                 <<"y", "e", "s", "s">>}
TitleLines == {<<>>, <<" ", "T">>}
DescriptionLines == {<<" ">>, <<"d", " ">>}
StepLines == {<<>>, <<"s">>}
ModeLines == {<<>>, <<"3">>, <<"1">>, <<" ", "2">>}
CountLines == {<<>>, <<"x">>, <<"0">>} \cup {str(n) : n \in 1..MaxCount}

\* The lines of ConfirmLines by which the user says yes.
Affirmative(line) == line \in {<<"j">>, <<" ", "J", "A">>, <<"y", "e", "s">>}

\* The project name that has a page or an image folder, or a path of the
\* other kind, before the run; a run under another name finds them there
\* and has nothing of its own.
FsSlugs == {<<"a">>}

OldPage == <<"<html>an earlier page</html>">>

\* A path is of one kind, and projects/ holds entries only as a directory.
InitialFilesystems ==
    {f \in [projects_dir : BOOLEAN,
            html : {{[name |-> n, content |-> OldPage, torn |-> FALSE] : n \in h} :
                       h \in SUBSET FsSlugs},
            image_dirs : SUBSET FsSlugs,
            projects_file : BOOLEAN,
            html_dirs : SUBSET FsSlugs,
            image_files : SUBSET FsSlugs] :
        /\ ~(f.projects_dir /\ f.projects_file)
        /\ (f.html # {} \/ f.html_dirs # {}) => f.projects_dir
        /\ \A file \in f.html : file.name \notin f.html_dirs
        /\ f.image_dirs \cap f.image_files = {}}

\* html_path.exists() and images_path.exists(): true of a path of any kind.
html_exists(f, name) ==
    (\E file \in f.html : file.name = name) \/ name \in f.html_dirs
images_exists(f, name) == name \in f.image_dirs \/ name \in f.image_files

Init ==
    /\ pc = "name"
    /\ response = <<>>
    /\ fs \in InitialFilesystems
    /\ fs_start = fs
    /\ PromptIntIdle /\ MainIdle

\* raw_slug = prompt_non_empty(...); slug = slugify(raw_slug); if not slug: return
ReadName ==
    /\ pc = "name"
    /\ \E line \in NameLines :
          \E r \in {prompt_non_empty(line)} :
              /\ response' = line
              /\ IF r = None
                 THEN UNCHANGED <<pc, raw_slug, slug>>
                 ELSE /\ raw_slug' = r[1]
                      /\ slug' = slugify(r[1])
                      /\ pc' = IF slugify(r[1]) = <<>> THEN "aborted" ELSE "confirm_name"
    /\ UNCHANGED <<inputs, min_value, returned, fs, fs_start, confirmed, title,
                   count, paragraphs, step_count, steps, description_paragraphs,
                   steps_mode, step_groups, step_paragraphs, html_output>>

\* Where main goes after the checkpoint `at` was confirmed, when the
\* existence checks it comes to return: lines 179-189.
after_checkpoint(at) ==
    IF at = "name" /\ html_exists(fs, slug) THEN "confirm_overwrite"
    ELSE IF at \in {"name", "overwrite"} /\ images_exists(fs, slug) THEN "confirm_folder"
    ELSE "title"

\* Whether main calls html_path.exists() or images_path.exists() between the
\* checkpoint `at` and the next prompt: html_path.exists() follows the name,
\* images_path.exists() follows the name when there was no page and the
\* question about overwriting otherwise; the title follows the question
\* about the folder.
checks_existence(at) == at \in {"name", "overwrite"}

\* if not confirm(...): return, at the checkpoint `at`; on a yes, the
\* existence checks up to the next prompt.  exists() is a stat of the path:
\* it returns, or it raises the OSError of a stat refused by the environment
\* (PermissionError), which main does not catch.
Checkpoint(at) ==
    /\ \E line \in ConfirmLines :
          /\ response' = line
          /\ confirmed' = IF Affirmative(line) THEN confirmed \cup {at} ELSE confirmed
          /\ IF ~confirm(line) THEN pc' = "aborted"
             ELSE \/ pc' = after_checkpoint(at)
                  \/ checks_existence(at) /\ pc' = "raised"
    /\ UNCHANGED <<inputs, min_value, returned, fs, fs_start, raw_slug, slug, title,
                   count, paragraphs, step_count, steps, description_paragraphs,
                   steps_mode, step_groups, step_paragraphs, html_output>>

ConfirmName == pc = "confirm_name" /\ Checkpoint("name")

ConfirmOverwrite == pc = "confirm_overwrite" /\ Checkpoint("overwrite")

ConfirmFolder == pc = "confirm_folder" /\ Checkpoint("folder")

\* title = prompt_non_empty("Titel: ")
ReadTitle ==
    /\ pc = "title"
    /\ \E line \in TitleLines :
          \E r \in {prompt_non_empty(line)} :
              /\ response' = line
              /\ IF r = None
                 THEN UNCHANGED <<pc, title>>
                 ELSE title' = r[1] /\ pc' = "description_count"
    /\ UNCHANGED <<inputs, min_value, returned, fs, fs_start, confirmed, raw_slug,
                   slug, count, paragraphs, step_count, steps,
                   description_paragraphs, steps_mode, step_groups,
                   step_paragraphs, html_output>>

\* description_count = prompt_int(..., min_value=1), up to the first prompt
\* of build_description_paragraphs.
ReadDescriptionCount ==
    /\ pc = "description_count"
    /\ \E line \in CountLines :
          \E r \in {prompt_int(line, 1)} :
              /\ response' = line
              /\ IF r = None
                 THEN UNCHANGED <<pc, count, paragraphs, description_paragraphs>>
                 ELSE /\ count' = r[1]
                      /\ paragraphs' = <<>>
                      /\ description_paragraphs' = <<>>
                      /\ pc' = IF r[1] < 1 THEN "mode_choice" ELSE "description_text"
    /\ UNCHANGED <<inputs, min_value, returned, fs, fs_start, confirmed, raw_slug,
                   slug, title, step_count, steps, steps_mode, step_groups,
                   step_paragraphs, html_output>>

\* build_description_paragraphs: one prompt of its loop; its return on the
\* last one.
ReadDescriptionLine ==
    /\ pc = "description_text"
    /\ \E line \in DescriptionLines :
          \E r \in {prompt_non_empty(line)} :
              /\ response' = line
              /\ IF r = None
                 THEN UNCHANGED <<pc, paragraphs, description_paragraphs>>
                 ELSE IF Len(paragraphs) + 1 < count
                 THEN /\ paragraphs' = Append(paragraphs, r[1])
                      /\ UNCHANGED <<pc, description_paragraphs>>
                 ELSE /\ description_paragraphs' = Append(paragraphs, r[1])
                      /\ paragraphs' = <<>>
                      /\ pc' = "mode_choice"
    /\ UNCHANGED <<inputs, min_value, returned, fs, fs_start, confirmed, raw_slug,
                   slug, title, count, step_count, steps, steps_mode, step_groups,
                   step_paragraphs, html_output>>

\* while mode_choice not in {"1", "2"}: mode_choice = input(...).strip()
ReadModeChoice ==
    /\ pc = "mode_choice"
    /\ \E line \in ModeLines :
          \E mode_choice \in {strip(line)} :
              /\ response' = line
              /\ IF mode_choice \notin {<<"1">>, <<"2">>}
                 THEN UNCHANGED <<pc, steps_mode>>
                 ELSE /\ steps_mode' = IF mode_choice = <<"1">> THEN "images" ELSE "centered"
                      /\ pc' = IF mode_choice = <<"1">> THEN "step_count"
                               ELSE "step_paragraph_count"
    /\ UNCHANGED <<inputs, min_value, returned, fs, fs_start, confirmed, raw_slug,
                   slug, title, count, paragraphs, step_count, steps,
                   description_paragraphs, step_groups, step_paragraphs, html_output>>

\* step_count = prompt_int("Antal steg: ", min_value=1)
ReadStepCount ==
    /\ pc = "step_count"
    /\ \E line \in CountLines :
          \E r \in {prompt_int(line, 1)} :
              /\ response' = line
              /\ IF r = None
                 THEN UNCHANGED <<pc, step_count, steps, step_groups>>
                 ELSE /\ step_count' = r[1]
                      /\ steps' = <<>>
                      /\ step_groups' = IF r[1] < 1 THEN Some(<<>>) ELSE step_groups
                      /\ pc' = IF r[1] < 1 THEN "render" ELSE "paragraph_count"
    /\ UNCHANGED <<inputs, min_value, returned, fs, fs_start, confirmed, raw_slug,
                   slug, title, count, paragraphs, description_paragraphs,
                   steps_mode, step_paragraphs, html_output>>

\* build_steps_with_images: steps.append(step_paragraphs), then the next
\* step or the return to main.
StepAppended(step) ==
    IF Len(steps) + 1 < step_count
    THEN /\ steps' = Append(steps, step)
         /\ pc' = "paragraph_count"
         /\ UNCHANGED step_groups
    ELSE /\ step_groups' = Some(Append(steps, step))
         /\ steps' = <<>>
         /\ pc' = "render"

\* paragraph_count = prompt_int("Antal stycken i steget: ", min_value=1)
ReadParagraphCount ==
    /\ pc = "paragraph_count"
    /\ \E line \in CountLines :
          \E r \in {prompt_int(line, 1)} :
              /\ response' = line
              /\ IF r = None
                 THEN UNCHANGED <<pc, count, paragraphs, steps, step_groups>>
                 ELSE /\ count' = r[1]
                      /\ paragraphs' = <<>>
                      /\ IF r[1] < 1
                         THEN StepAppended(<<>>)
                         ELSE pc' = "step_text" /\ UNCHANGED <<steps, step_groups>>
    /\ UNCHANGED <<inputs, min_value, returned, fs, fs_start, confirmed, raw_slug,
                   slug, title, step_count, description_paragraphs, steps_mode,
                   step_paragraphs, html_output>>

\* step_paragraphs.append(prompt_non_empty(f"  Text {p_index}: "))
ReadStepText ==
    /\ pc = "step_text"
    /\ \E line \in StepLines :
          \E r \in {prompt_non_empty(line)} :
              /\ response' = line
              /\ IF r = None
                 THEN UNCHANGED <<pc, paragraphs, steps, step_groups>>
                 ELSE IF Len(paragraphs) + 1 < count
                 THEN /\ paragraphs' = Append(paragraphs, r[1])
                      /\ UNCHANGED <<pc, steps, step_groups>>
                 ELSE /\ paragraphs' = <<>>
                      /\ StepAppended(Append(paragraphs, r[1]))
    /\ UNCHANGED <<inputs, min_value, returned, fs, fs_start, confirmed, raw_slug,
                   slug, title, count, step_count, description_paragraphs,
                   steps_mode, step_paragraphs, html_output>>

\* step_paragraph_count = prompt_int(..., min_value=1)
ReadCenteredCount ==
    /\ pc = "step_paragraph_count"
    /\ \E line \in CountLines :
          \E r \in {prompt_int(line, 1)} :
              /\ response' = line
              /\ IF r = None
                 THEN UNCHANGED <<pc, count, paragraphs, step_paragraphs>>
                 ELSE /\ count' = r[1]
                      /\ paragraphs' = <<>>
                      /\ step_paragraphs' = IF r[1] < 1 THEN Some(<<>>) ELSE step_paragraphs
                      /\ pc' = IF r[1] < 1 THEN "render" ELSE "centered_text"
    /\ UNCHANGED <<inputs, min_value, returned, fs, fs_start, confirmed, raw_slug,
                   slug, title, step_count, steps, description_paragraphs,
                   steps_mode, step_groups, html_output>>

\* build_centered_steps: one prompt of its loop; its return on the last one.
ReadCenteredText ==
    /\ pc = "centered_text"
    /\ \E line \in StepLines :
          \E r \in {prompt_non_empty(line)} :
              /\ response' = line
              /\ IF r = None
                 THEN UNCHANGED <<pc, paragraphs, step_paragraphs>>
                 ELSE IF Len(paragraphs) + 1 < count
                 THEN /\ paragraphs' = Append(paragraphs, r[1])
                      /\ UNCHANGED <<pc, step_paragraphs>>
                 ELSE /\ step_paragraphs' = Some(Append(paragraphs, r[1]))
                      /\ paragraphs' = <<>>
                      /\ pc' = "render"
    /\ UNCHANGED <<inputs, min_value, returned, fs, fs_start, confirmed, raw_slug,
                   slug, title, count, step_count, steps, description_paragraphs,
                   steps_mode, step_groups, html_output>>

\* html_output = render_html(...)
Render ==
    /\ pc = "render"
    /\ html_output' = Some(render_html(slug, title, description_paragraphs,
                                       steps_mode, step_paragraphs, step_groups))
    /\ pc' = next_statement("render")
    /\ UNCHANGED <<response, inputs, min_value, returned, fs, fs_start, confirmed,
                   raw_slug, slug, title, count, paragraphs, step_count, steps,
                   description_paragraphs, steps_mode, step_groups, step_paragraphs>>

\* The filesystem f with the regular file projects/<name>.html holding
\* content, and, when torn, a part of the element after it.
written(f, name, content, torn) ==
    [f EXCEPT !.html = {file \in @ : file.name # name}
                         \cup {[name |-> name, content |-> content, torn |-> torn]}]

\* The elements of a page whose encoding in UTF-8 is more than one byte, so
\* that a write cut off by the system can end inside them: a chunk of the
\* template and a letter outside ASCII.
in_bytes(element) ==
    Len(element) > 1 \/ element \in {UpperLetters[i] : i \in 27..29}
                                   \cup {LowerLetters[i] : i \in 27..29}

\* What a write_text of page that raised may leave in the file: a part of
\* the page that is not all of it, of k whole elements and possibly a part
\* of the next element (the buffered text goes out in one or more writes,
\* and one that the system cuts short is followed by the error).
cut_off(page) ==
    {<<SubSeq(page, 1, k), torn>> :
        k \in 0..(Len(page) - 1), torn \in BOOLEAN} \ 
    {<<SubSeq(page, 1, k), TRUE>> :
        k \in {j \in 0..(Len(page) - 1) : ~in_bytes(page[j + 1])}}

\* A filesystem call of main.  It returns and fs becomes f, which it cannot
\* do when the path is `refused` (it is of the other kind: FileExistsError
\* from mkdir, IsADirectoryError from write_text); or it raises an OSError,
\* fs becomes one of `left`, and main, which catches nothing, ends there.
FsStep(at, refused, f, left) ==
    /\ pc = at
    /\ \/ ~refused /\ fs' = f /\ pc' = next_statement(at)
       \/ fs' \in left /\ pc' = "raised"
    /\ UNCHANGED <<response, inputs, min_value, returned, fs_start, confirmed,
                   raw_slug, slug, title, count, paragraphs, step_count, steps,
                   description_paragraphs, steps_mode, step_groups, step_paragraphs,
                   html_output>>

\* projects_dir.mkdir(parents=True, exist_ok=True)
MkdirProjects ==
    FsStep("mkdir_projects", fs.projects_file,
           [fs EXCEPT !.projects_dir = TRUE], {fs})

\* images_path.mkdir(parents=True, exist_ok=True)
MkdirImages ==
    FsStep("mkdir_images", slug \in fs.image_files,
           [fs EXCEPT !.image_dirs = @ \cup {slug}], {fs})

\* html_path.write_text(html_output, encoding="utf-8"): open for writing,
\* which empties or creates the file, then write.  A call that raises leaves
\* the filesystem as it was or, raising after the open, the file empty or
\* with a part of the page.
WriteText ==
    FsStep("write_text", slug \in fs.html_dirs,
           written(fs, slug, html_output[1], FALSE),
           {fs} \cup IF slug \in fs.html_dirs THEN {}
                     ELSE {written(fs, slug, part[1], part[2]) :
                              part \in cut_off(html_output[1])})

Next ==
    \/ ReadName
    \/ ConfirmName
    \/ ConfirmOverwrite
    \/ ConfirmFolder
    \/ ReadTitle
    \/ ReadDescriptionCount
    \/ ReadDescriptionLine
    \/ ReadModeChoice
    \/ ReadStepCount
    \/ ReadParagraphCount
    \/ ReadStepText
    \/ ReadCenteredCount
    \/ ReadCenteredText
    \/ Render
    \/ MkdirProjects
    \/ MkdirImages
    \/ WriteText

Spec == Init /\ [][Next]_vars

\* The runs in which the user does not answer a prompt with invalid lines
\* for ever and each statement of the program completes, a filesystem call
\* by returning or by raising: weak fairness of the steps that change more
\* than the line read.
LiveSpec == Init /\ [][Next]_vars /\ WF_progress_vars(Next)

-----------------------------------------------------------------------------
(* The slug normalizer.                                                    *)

\* C2 as stated: normalizing "  Väg-Lampa 2!! " yields "vag_lampa_2".
C2_AsStated ==
    (pc = "slugify_done" /\ raw_slug = VagLampa)
        => slug = <<"v", "a", "g", "_", "l", "a", "m", "p", "a", "_", "2">>

\* C2, amended: normalizing "  Väg-Lampa 2!! " yields "vaglampa_2"; the
\* hyphen is a disallowed character and is removed, it is not whitespace.
C2_VagLampa ==
    (pc = "slugify_done" /\ raw_slug = VagLampa)
        => slug = <<"v", "a", "g", "l", "a", "m", "p", "a", "_", "2">>

C2_Witness == pc = "slugify_done" /\ raw_slug = VagLampa /\ slug # <<>>

\* What one character of a raw name contributes to the letters and digits of
\* its slug: å, ä, ö in either case give a, a, o; an ASCII letter gives its
\* lower case; a digit gives itself; anything else gives nothing.
Contribution(c) ==
    LET l == lower_char(c)
    IN  IF l \in {"å", "ä"} THEN <<"a">>
        ELSE IF l = "ö" THEN <<"o">>
        ELSE IF l \in AsciiLower \cup DigitChars THEN <<l>>
        ELSE <<>>

RECURSIVE Contributions(_)
Contributions(s) ==
    IF s = <<>> THEN <<>> ELSE Contribution(Head(s)) \o Contributions(Tail(s))

NotUnderscore(c) == c # "_"

\* C3: the slug of every raw name holds only characters of [a-z0-9_], has no
\* leading, trailing or doubled underscore, holds the letters and digits of
\* the raw name in order with every å, ä, ö (either case) as a, a, o, and is
\* empty when the raw name holds only whitespace and disallowed punctuation.
C3_SlugShape ==
    pc = "slugify_done" =>
        /\ \A i \in 1..Len(slug) : slug[i] \in SlugChars
        /\ slug # <<>> => (slug[1] # "_" /\ slug[Len(slug)] # "_")
        /\ \A i \in 1..(Len(slug) - 1) : ~(slug[i] = "_" /\ slug[i + 1] = "_")
        /\ SelectSeq(slug, NotUnderscore) = Contributions(raw_slug)
        /\ (\A i \in 1..Len(raw_slug) :
                raw_slug[i] \in Whitespace \cup {"-", "!", "_"}) => slug = <<>>

C3_Witness ==
    /\ pc = "slugify_done"
    /\ \E i, j, k \in 1..Len(raw_slug) :
          i < j /\ j < k /\ raw_slug[i] = "Ä" /\ raw_slug[j] = " " /\ raw_slug[k] = "ö"
    /\ raw_slug[1] = "_"
    /\ slug = <<"a", "_", "o">>

-----------------------------------------------------------------------------
(* The integer prompt.                                                     *)

\* What each line of IntLines is, read off Python's int(): "blank" for a line
\* of whitespace only, "junk" for a line that is no integer, "int" for one
\* that is.
Kind(line) ==
    CASE line \in {<<>>, <<" ">>} -> "blank"
      [] line \in {<<"x">>, <<"1", ".">>, <<"-">>, <<"2", "_">>} -> "junk"
      [] OTHER -> "int"

\* The integer each integer line of IntLines spells.
Number(line) ==
    CASE line = <<"0">> -> 0
      [] line = <<"1">> -> 1
      [] line = <<"2">> -> 2
      [] line = <<"-", "1">> -> -1
      [] line = <<"-", "2">> -> -2
      [] line = <<" ", "2", " ">> -> 2
      [] line = <<"+", "1">> -> 1
      [] line = <<"1", "_", "0">> -> 10
      [] line = <<"1", "2">> -> 12

\* The line ends the call with v.
Accepts(line, minimum, v) ==
    \/ Kind(line) = "int" /\ Number(line) >= minimum /\ v = Number(line)
    \/ Kind(line) = "blank" /\ minimum = 0 /\ v = 0

\* The line is answered by another prompt.
Rejects(line, minimum) ==
    \/ Kind(line) = "junk"
    \/ Kind(line) = "blank" /\ minimum # 0
    \/ Kind(line) = "int" /\ Number(line) < minimum

\* C7: prompt_int never returns a value below the minimum; every line before
\* the one it returns on was non-numeric, an integer below the minimum, or
\* blank with a minimum other than 0; it returns on the first line that is an
\* integer >= minimum (with that integer) or blank with minimum 0 (with 0).
C7_PromptInt ==
    /\ pc = "prompt_int" =>
          /\ returned = None
          /\ \A i \in 1..Len(inputs) : Rejects(inputs[i], min_value)
    /\ pc = "prompt_int_returned" =>
          /\ returned # None
          /\ returned[1] >= min_value
          /\ \A i \in 1..(Len(inputs) - 1) : Rejects(inputs[i], min_value)
          /\ Accepts(inputs[Len(inputs)], min_value, returned[1])
          /\ ~Rejects(inputs[Len(inputs)], min_value)

C7_Witness ==
    /\ pc = "prompt_int_returned"
    /\ min_value = 1
    /\ inputs = << <<>>, <<" ", "2", " ">> >>
    /\ returned = Some(2)

-----------------------------------------------------------------------------
(* The page renderer.  The claims read the rendered page back: a place of  *)
(* the page is what stands between two literal chunks of the template.     *)

Page == html_output[1]

Elements(s) == {s[i] : i \in 1..Len(s)}

\* The first position of an element in a sequence that holds it.
FirstPos(s, e) == CHOOSE i \in 1..Len(s) : s[i] = e /\ \A j \in 1..(i - 1) : s[j] # e

After(s, e) == SubSeq(s, FirstPos(s, e) + 1, Len(s))

Before(s, e) == SubSeq(s, 1, FirstPos(s, e) - 1)

\* What stands between the first a and the next b after it.
Between(s, a, b) == Before(After(s, a), b)

RECURSIVE ParagraphsOf(_, _)
\* The contents of the <p> elements opened by p_open in a region, in order.
ParagraphsOf(region, p_open) ==
    IF p_open \notin Elements(region) THEN <<>>
    ELSE <<Between(region, p_open, PClose)>>
         \o ParagraphsOf(After(After(region, p_open), PClose), p_open)

RECURSIVE RowsOf(_)
\* The step rows of a region: what follows each RowOpen, up to the next one.
RowsOf(region) ==
    IF RowOpen \notin Elements(region) THEN <<>>
    ELSE LET rest == After(region, RowOpen)
         IN  IF RowOpen \in Elements(rest)
             THEN <<Before(rest, RowOpen)>> \o RowsOf(SubSeq(rest, FirstPos(rest, RowOpen), Len(rest)))
             ELSE <<rest>>

\* The HTML entity of one character; the character itself when it has none.
EntityOf(c) ==
    CASE c = "&" -> <<"&", "a", "m", "p", ";">>
      [] c = "<" -> <<"&", "l", "t", ";">>
      [] c = ">" -> <<"&", "g", "t", ";">>
      [] c = "\"" -> <<"&", "q", "u", "o", "t", ";">>
      [] c = "'" -> <<"&", "#", "x", "2", "7", ";">>
      [] OTHER -> <<c>>

RECURSIVE Entities(_)
\* A text with each of its characters as its entity, in one pass.
Entities(text) ==
    IF text = <<>> THEN <<>> ELSE EntityOf(Head(text)) \o Entities(Tail(text))

EntitiesOfEach(texts) == [i \in 1..Len(texts) |-> Entities(texts[i])]

RECURSIVE Concat(_)
Concat(lists) == IF lists = <<>> THEN <<>> ELSE Head(lists) \o Concat(Tail(lists))

\* An entity starts at position i of s.
EntityAt(s, i) ==
    \E c \in {"&", "<", ">", "\"", "'"} :
        /\ i + Len(EntityOf(c)) - 1 <= Len(s)
        /\ SubSeq(s, i, i + Len(EntityOf(c)) - 1) = EntityOf(c)

MetaDescription == Between(Page, DocHead, DocOgImage)
TitleElement == Between(Page, DocTitleOpen, DocTitleClose)
Heading == Between(Page, DocTitleClose, DocH1Close)
DescriptionRegion == Between(Page, DocH1Close, DocDescriptionClose)
ClassAttribute == Between(Page, DocAlt3Close, DocClassClose)
StepsRegion == Between(Page, DocClassClose, DocTail)

\* The paragraphs of the steps section as passed in, whichever the layout.
StepTexts == IF steps_mode = "images" THEN Concat(step_groups[1]) ELSE step_paragraphs[1]

\* C4: in the rendered page the title (title element, h1, the three alt
\* attributes), every description paragraph, every step paragraph and the
\* meta description stand with each of & < > " ' as its entity, and no
\* interpolated character of the page is a raw < > " ' or a & that does not
\* start an entity.
C4_Escaped ==
    pc = "render_html_done" =>
        /\ TitleElement = Entities(title)
        /\ Heading = Entities(title)
        /\ Between(Page, DocAlt1Open, DocAlt1Close) = Entities(title)
        /\ Between(Page, DocAlt2Open, DocAlt2Close) = Entities(title)
        /\ Between(Page, DocAlt3Open, DocAlt3Close) = Entities(title)
        /\ MetaDescription = Entities(join(<<" ">>, description_paragraphs))
        /\ ParagraphsOf(DescriptionRegion, DescriptionPOpen)
             = EntitiesOfEach(description_paragraphs)
        /\ ParagraphsOf(StepsRegion,
                        IF steps_mode = "images" THEN POpenStep ELSE DescriptionPOpen)
             = EntitiesOfEach(StepTexts)
        /\ \A i \in 1..Len(Page) :
              /\ Page[i] \notin {"<", ">", "\"", "'"}
              /\ Page[i] = "&" => EntityAt(Page, i)

C4_Witness ==
    /\ pc = "render_html_done"
    /\ title = <<"\"", " ", "'">>
    /\ steps_mode = "images"
    /\ \E i \in 1..Len(StepTexts) : {"<", "&", ">", "\"", "'"} \subseteq Elements(StepTexts[i])
    /\ \E i \in 1..Len(description_paragraphs) : "&" \in Elements(description_paragraphs[i])
    /\ Heading = <<"&", "q", "u", "o", "t", ";", " ", "&", "#", "x", "2", "7", ";">>

\* C5: in the image layout the page holds exactly one step-image reference
\* per step; the i-th row names images/projects/{slug}/step_i.jpg, and what
\* follows it up to the next row are the paragraphs of step i, in order.
C5_StepImages ==
    (pc = "render_html_done" /\ steps_mode = "images") =>
        LET groups == step_groups[1]
            found == RowsOf(StepsRegion)
        IN  /\ Cardinality({i \in 1..Len(Page) : Page[i] = RowStep}) = Len(groups)
            /\ Len(found) = Len(groups)
            /\ \A i \in 1..Len(found) :
                  /\ Before(found[i], RowAlt) = slug \o <<RowStep, Digits[i + 1]>>
                  /\ Between(found[i], RowAlt, RowTextOpen) = <<Digits[i + 1]>>
                  /\ ParagraphsOf(After(found[i], RowStep), POpenStep)
                       = EntitiesOfEach(groups[i])

C5_Witness ==
    /\ pc = "render_html_done"
    /\ steps_mode = "images"
    /\ Len(step_groups[1]) = 2
    /\ Len(step_groups[1][1]) = 2
    /\ step_groups[1][1][1] # step_groups[1][1][2]
    /\ Len(RowsOf(StepsRegion)) = 2

\* C6: the steps container carries the centered modifier exactly in the
\* centered layout; a centered page holds no step-image reference and its
\* steps container holds the step paragraphs as a flat list, in order; an
\* image-layout page holds the modifier nowhere.
C6_CenteredModifier ==
    pc = "render_html_done" =>
        /\ ClassAttribute[1] = "project-steps"
        /\ (" centered-text" \in Elements(ClassAttribute)) <=> (steps_mode = "centered")
        /\ steps_mode = "centered" =>
              /\ ClassAttribute = <<"project-steps", " centered-text">>
              /\ Elements(Page) \cap {RowStep, RowOpen, RowAlt, POpenStep} = {}
              /\ StepsRegion = join(<<"\n">>,
                    [i \in 1..Len(StepTexts) |->
                        <<DescriptionPOpen>> \o Entities(StepTexts[i]) \o <<PClose>>])
        /\ steps_mode = "images" => " centered-text" \notin Elements(Page)

C6_Witness ==
    /\ pc = "render_html_done"
    /\ steps_mode = "centered"
    /\ Len(step_paragraphs[1]) = 3
    /\ step_paragraphs[1][1] # step_paragraphs[1][2]
    /\ " centered-text" \in Elements(Page)

-----------------------------------------------------------------------------
(* The run of main.                                                        *)

PromptPcs == {"name", "confirm_name", "confirm_overwrite", "confirm_folder",
              "title", "description_count", "description_text", "mode_choice",
              "step_count", "paragraph_count", "step_text",
              "step_paragraph_count", "centered_text"}
CollectingPcs == {"title", "description_count", "description_text", "mode_choice",
                  "step_count", "paragraph_count", "step_text",
                  "step_paragraph_count", "centered_text", "render"}
WritingPcs == {"mkdir_projects", "mkdir_images", "write_text", "done"}

\* The run passed every checkpoint it had to pass.
Cleared ==
    /\ slug # <<>>
    /\ "name" \in confirmed
    /\ html_exists(fs_start, slug) => "overwrite" \in confirmed
    /\ images_exists(fs_start, slug) => "folder" \in confirmed

\* The target file holds the document rendered by this run.
Written ==
    /\ html_output # None
    /\ [name |-> slug, content |-> html_output[1], torn |-> FALSE] \in fs.html

\* C1: the page is written and the folder made only in a run with a
\* non-empty slug in which the user said yes to the name, to overwriting an
\* existing page and to continuing with an existing folder; until then, and
\* on every abort, the filesystem is as it was at the start; a finished run
\* leaves exactly the page and the folder added; and a run ended by a
\* filesystem call that raised has touched nothing but projects/, the page
\* and the folder of its slug.
C1_OnlyWhenCleared ==
    /\ (pc \in CollectingPcs \cup WritingPcs \/ fs # fs_start) => Cleared
    /\ pc \notin WritingPcs \cup {"raised"} => fs = fs_start
    /\ (pc = "raised" /\ html_output = None) => fs = fs_start
    /\ (pc = "raised" /\ html_output # None) => Cleared
    /\ (pc \notin {"name", "aborted"}) => slug # <<>>
    /\ pc = "done" =>
          /\ Written
          /\ fs.projects_dir
          /\ fs.image_dirs = fs_start.image_dirs \cup {slug}
    /\ {f \in fs.html : f.name # slug} = {f \in fs_start.html : f.name # slug}
    /\ \A f, g \in fs.html : f.name = g.name => f = g
    /\ fs.image_dirs \in {fs_start.image_dirs, fs_start.image_dirs \cup {slug}}
    /\ fs.projects_file = fs_start.projects_file
    /\ fs.html_dirs = fs_start.html_dirs
    /\ fs.image_files = fs_start.image_files

C1_Witness ==
    /\ pc = "done"
    /\ html_exists(fs_start, slug) /\ images_exists(fs_start, slug)
    /\ confirmed = {"name", "overwrite", "folder"}
    /\ Written

\* A text with a character that is not whitespace.
HasText(t) == \E i \in 1..Len(t) : t[i] \notin Whitespace

\* C8: from the call of render_html on, the title is non-empty, there is at
\* least one description paragraph and each has text, and exactly the steps
\* variant of steps_mode is set: image mode has at least one step, each of
\* at least one paragraph with text, and no step_paragraphs; centered mode
\* has at least one paragraph with text and no step_groups.
C8_CollectedValid ==
    (pc \in {"render"} \cup WritingPcs \/ (pc = "raised" /\ html_output # None)) =>
        /\ title # <<>>
        /\ Len(description_paragraphs) >= 1
        /\ \A i \in 1..Len(description_paragraphs) : HasText(description_paragraphs[i])
        /\ steps_mode \in {"images", "centered"}
        /\ steps_mode = "images" =>
              /\ step_paragraphs = None /\ step_groups # None
              /\ Len(step_groups[1]) >= 1
              /\ \A i \in 1..Len(step_groups[1]) :
                    /\ Len(step_groups[1][i]) >= 1
                    /\ \A j \in 1..Len(step_groups[1][i]) : HasText(step_groups[1][i][j])
        /\ steps_mode = "centered" =>
              /\ step_groups = None /\ step_paragraphs # None
              /\ Len(step_paragraphs[1]) >= 1
              /\ \A i \in 1..Len(step_paragraphs[1]) : HasText(step_paragraphs[1][i])

C8_Witness ==
    /\ pc = "render"
    /\ steps_mode = "images"
    /\ Len(step_groups[1]) = 2 /\ Len(step_groups[1][2]) = 2
    /\ Len(description_paragraphs) = 2

\* C9 as stated: the document is written before the image folder is made,
\* so the folder made by this run never exists without the written document.
C9_AsStated ==
    (images_exists(fs, slug) /\ ~images_exists(fs_start, slug)) => Written

\* C9, amended: the image folder is made before the document is written;
\* the written document never exists without the folder, between the two
\* calls the folder exists and the document is not written, and a run that
\* a raising call ended after it made the folder has the folder and not the
\* written document.
C9_FolderFirst ==
    /\ Written => (slug \in fs.image_dirs /\ fs.projects_dir)
    /\ pc = "write_text" => (slug \in fs.image_dirs /\ ~Written /\ fs.html = fs_start.html)
    /\ (pc = "raised" /\ slug \in fs.image_dirs \ fs_start.image_dirs) => ~Written

C9_Witness ==
    /\ pc = "write_text"
    /\ ~images_exists(fs_start, slug) /\ images_exists(fs, slug)
    /\ ~html_exists(fs, slug)

\* The lines that answer a prompt; the others are answered by the prompt
\* again.
ValidLine(at, line) ==
    CASE at = "name" -> line \notin {<<>>, <<" ">>}
      [] at = "title" -> line # <<>>
      [] at = "description_text" -> line # <<" ">>
      [] at \in {"step_text", "centered_text"} -> line # <<>>
      [] at = "mode_choice" -> line \in {<<"1">>, <<" ", "2">>}
      [] at \in {"description_count", "step_count", "paragraph_count",
                 "step_paragraph_count"} -> line \notin {<<>>, <<"x">>, <<"0">>}
      [] OTHER -> TRUE

Finished ==
    \/ pc = "aborted"
    \/ pc = "done" /\ Written /\ slug \in fs.image_dirs

\* A filesystem call of main raised, and the exception ended the run.
Raised == pc = "raised"

\* A prompt is repeated exactly when the line read is invalid; a name with an
\* empty slug ends the run at once; and nothing happens after the end.
RepromptRule ==
    /\ pc \in PromptPcs =>
          ((progress_vars' = progress_vars) <=> ~ValidLine(pc, response'))
    /\ (pc = "name" /\ response' = <<"!">>) => pc' = "aborted"
    /\ pc \notin {"aborted", "done", "raised"}

\* C10 as stated: when the user does not type invalid lines for ever, every
\* run ends aborted or with both artifacts made.
C10_AsStated == <>Finished /\ [][RepromptRule]_vars

\* C10, amended: when the user does not type invalid lines for ever, every
\* run ends: aborted, with both artifacts made, or by the uncaught error of
\* a filesystem call.  Only the calls of main on its paths end a run by an
\* error: html_path.exists() and images_path.exists(), which follow a yes
\* to the name or to overwriting, and projects_dir.mkdir, images_path.mkdir
\* and html_path.write_text; the last three do when the path is a regular
\* file where a directory is to be made or a directory where the document
\* is to be written.  A prompt is repeated exactly when the line read is
\* invalid; a name with an empty slug ends the run at once; and nothing
\* happens after the end.
C10_Terminates ==
    /\ <>(Finished \/ Raised)
    /\ [][/\ RepromptRule
          /\ Raised' =>
                \/ pc \in {"confirm_name", "confirm_overwrite"} /\ Affirmative(response')
                \/ pc \in {"mkdir_projects", "mkdir_images", "write_text"}
          /\ (pc = "mkdir_projects" /\ fs.projects_file) => Raised'
          /\ (pc = "mkdir_images" /\ slug \in fs.image_files) => Raised'
          /\ (pc = "write_text" /\ slug \in fs.html_dirs) => Raised']_vars

\* Every prompt was answered and every checkpoint confirmed, the folder was
\* made, and write_text raised.
C10_Witness ==
    /\ Raised
    /\ confirmed = {"name", "overwrite"}
    /\ slug \in fs.image_dirs \ fs_start.image_dirs
    /\ slug \in fs.html_dirs
    /\ steps_mode = "images"
    /\ Len(step_groups[1]) = 2

=============================================================================
